---- MODULE Spec2Model ----
(***************************************************************************)
(* A model of src/app.py, the "Dot To Do" digest service: the POST /todo   *)
(* handler with its two tracking-API fetches and its language-model call,  *)
(* and the pure helpers is_stale, strip_markdown_json and the HTML         *)
(* builders.                                                               *)
(*                                                                         *)
(* Text is a sequence of one-character strings.  A JSON value is a record  *)
(* [kind, num, items]; a JSON object is a function from the keys it holds  *)
(* to their values, so that dict.get(key, default) is a lookup with a      *)
(* default.  A list element (a job or a meeting) is a record whose fields  *)
(* hold the value dict.get would give, the default when the key is absent. *)
(***************************************************************************)
EXTENDS Integers, Sequences, FiniteSets, TLC

VARIABLES
    pc,                 \* position of the /todo request
    apiKey,             \* AIRTABLE_API_KEY is set
    now,                \* datetime.now(): [day, hour]
    meetings,           \* data.get('meetings', [])
    updatesResp,        \* what the Updates table answered (local of the fetch)
    last_updates,       \* get_last_update_dates(): job number -> created time
    projectsResp,       \* what the Projects table answered (local of the fetch)
    jobs,               \* get_jobs_from_airtable()
    fetchFailed,        \* the job fetch ended in its failure path
    reply,              \* what the language model answered
    claude_response,    \* call_claude(): [none, value]
    fun_fact, processed_meetings, work_today, work_this_week, other_projects,
    html,               \* build_todo_email(...)
    response,           \* the HTTP response
    raisedAt,           \* the step whose exception reached line 463, or "none"
    trace,              \* the steps of the request, in the order taken
    sm,                 \* one evaluation of strip_markdown_json
    st,                 \* one evaluation of is_stale
    em                  \* one evaluation of build_todo_email

vars == <<pc, apiKey, now, meetings, updatesResp, last_updates, projectsResp, jobs,
          fetchFailed, reply, claude_response, fun_fact, processed_meetings,
          work_today, work_this_week, other_projects, html, response, raisedAt,
          trace, sm, st, em>>

todoVars == <<pc, apiKey, meetings, updatesResp, last_updates, projectsResp, jobs,
              fetchFailed, reply, claude_response, fun_fact, processed_meetings,
              work_today, work_this_week, other_projects, html, response, raisedAt,
              trace>>

----------------------------------------------------------------------------
(* Bounds of the model *)

MaxRecords == 2     \* records in a Projects answer
MaxUpdates == 2     \* records in an Updates answer
MaxItems == 2       \* elements of a list handed to build_todo_email
MaxText == 3        \* characters of the JSON text inside a fence
MaxAge == 12        \* oldest update, in days before today
Today == 20         \* the day number of datetime.now()

(* Program constants *)

StaleDays == 10     \* is_stale's default threshold
FenceLen == 3       \* content[3:]

----------------------------------------------------------------------------
(* Text *)

BT == "^"     \* stands for the backquote, which a TLA+ string cannot hold
NL == "\n"
SP == " "
Fence == <<BT, BT, BT>>

IsSpace(c) == c \in {SP, NL}

RECURSIVE LStrip(_)
LStrip(s) == IF s # <<>> /\ IsSpace(Head(s)) THEN LStrip(Tail(s)) ELSE s

RECURSIVE RStrip(_)
RStrip(s) ==
    IF s # <<>> /\ IsSpace(s[Len(s)]) THEN RStrip(SubSeq(s, 1, Len(s) - 1)) ELSE s

\* str.strip()
Strip(s) == RStrip(LStrip(s))

\* str.startswith(p)
StartsWith(s, p) == Len(s) >= Len(p) /\ SubSeq(s, 1, Len(p)) = p

\* str.endswith(p)
EndsWith(s, p) == Len(s) >= Len(p) /\ SubSeq(s, Len(s) - Len(p) + 1, Len(s)) = p

\* c in s
Contains(s, c) == \E i \in 1..Len(s) : s[i] = c

\* s.split(c, 1)[1], for s that contains c
AfterFirst(s, c) ==
    LET i == CHOOSE k \in 1..Len(s) : s[k] = c /\ \A m \in 1..(k - 1) : s[m] # c
    IN  SubSeq(s, i + 1, Len(s))

\* s.rsplit(p, 1)[0], for s that contains p
BeforeLast(s, p) ==
    LET At(k) == SubSeq(s, k, k + Len(p) - 1) = p
        Starts == {k \in 1..(Len(s) - Len(p) + 1) : At(k)}
        i == CHOOSE k \in Starts : \A m \in Starts : m <= k
    IN  SubSeq(s, 1, i - 1)

\* strip_markdown_json without line 96-97: the closing fence is left in place
StripOpeningFenceOnly(content) ==
    LET c1 == Strip(content)
        c2 == IF StartsWith(c1, Fence)
              THEN IF Contains(c1, NL) THEN AfterFirst(c1, NL)
                   ELSE SubSeq(c1, FenceLen + 1, Len(c1))
              ELSE c1
    IN  Strip(c2)

strip_markdown_json(content) ==
    LET c1 == Strip(content)
        c2 == IF StartsWith(c1, Fence)
              THEN IF Contains(c1, NL) THEN AfterFirst(c1, NL)
                   ELSE SubSeq(c1, FenceLen + 1, Len(c1))
              ELSE c1
        c3 == IF EndsWith(c2, Fence) THEN BeforeLast(c2, Fence) ELSE c2
    IN  Strip(c3)

----------------------------------------------------------------------------
(* Timestamps and is_stale *)

\* A "Created time" value: the empty string, a string strptime rejects, or an
\* ISO timestamp of a day and an hour of that day.
EmptyTime == [kind |-> "empty", day |-> 0, hour |-> 0]
MalformedTime == [kind |-> "malformed", day |-> 0, hour |-> 0]
IsoTime(d, h) == [kind |-> "iso", day |-> d, hour |-> h]

\* datetime.strptime(last_update[:10], '%Y-%m-%d'): the slice drops the time of
\* day; a string that is no date raises ValueError (ok = FALSE).
Strptime(t) == [ok |-> t.kind = "iso", day |-> t.day]

\* (datetime.now() - last_date).days: timedelta.days is the floor of the
\* difference, last_date being midnight of its day.
DaysSince(clock, day) == ((clock.day - day) * 24 + clock.hour) \div 24

EmptyMap == [k \in {} |-> EmptyTime]

\* dict.get(key, default)
Get(d, key, default) == IF key \in DOMAIN d THEN d[key] ELSE default

\* is_stale with "days_since > days" in line 73
IsStaleStrictlyOlder(job_number, updates, days, clock) ==
    LET last_update == Get(updates, job_number, EmptyTime)
        parsed == Strptime(last_update)
    IN  IF last_update.kind = "empty" THEN [raised |-> FALSE, value |-> TRUE]
        ELSE IF ~parsed.ok THEN [raised |-> FALSE, value |-> FALSE]
        ELSE [raised |-> FALSE, value |-> DaysSince(clock, parsed.day) > days]

\* is_stale(job_number, last_updates, days), evaluated at time clock.  The
\* result is [raised, value]: the bare except of line 74 turns every exception
\* of the try block into the value False.
is_stale(job_number, updates, days, clock) ==
    LET last_update == Get(updates, job_number, EmptyTime)
        parsed == Strptime(last_update)
    IN  IF last_update.kind = "empty" THEN [raised |-> FALSE, value |-> TRUE]
        ELSE IF ~parsed.ok THEN [raised |-> FALSE, value |-> FALSE]
        ELSE [raised |-> FALSE, value |-> DaysSince(clock, parsed.day) >= days]

----------------------------------------------------------------------------
(* The tracking API *)

\* An answer of the tracking API to one GET: httpx.get raises ("transport"),
\* raise_for_status raises ("status"), the body is not the expected JSON
\* ("malformed"), or it holds records ("ok").
Answer(o, recs) == [outcome |-> o, records |-> recs]
NotAsked == Answer("none", <<>>)
FailedAnswers == {Answer(o, <<>>) : o \in {"transport", "status", "malformed"}}

\* get_last_update_dates lines 47-55 with line 54 reduced to "if job_number":
\* a later record overwrites an earlier one
BuildLastUpdatesKeepLast(records) ==
    LET F[i \in 0..Len(records)] ==
            IF i = 0 THEN EmptyMap
            ELSE LET r == records[i]
                     m == F[i - 1]
                 IN  IF r.jobNumber # <<>>
                     THEN [k \in DOMAIN m \cup {r.jobNumber} |->
                              IF k = r.jobNumber THEN r.created ELSE m[k]]
                     ELSE m
    IN  F[Len(records)]

\* get_last_update_dates lines 47-55: the first record of each job number wins
BuildLastUpdates(records) ==
    LET F[i \in 0..Len(records)] ==
            IF i = 0 THEN EmptyMap
            ELSE LET r == records[i]
                     m == F[i - 1]
                 IN  IF r.jobNumber # <<>> /\ r.jobNumber \notin DOMAIN m
                     THEN [k \in DOMAIN m \cup {r.jobNumber} |->
                              IF k = r.jobNumber THEN r.created ELSE m[k]]
                     ELSE m
    IN  F[Len(records)]

\* get_last_update_dates(): {} without a key and on every exception
get_last_update_dates(key, answer) ==
    IF ~key THEN EmptyMap
    ELSE IF answer.outcome # "ok" THEN EmptyMap
    ELSE BuildLastUpdates(answer.records)

\* A job or a meeting as the renderer reads it: each field is what dict.get
\* gives, the default standing for an absent key.  isDict is FALSE for a list
\* element that is no JSON object (.get raises AttributeError on it).
Item(isd, num, name, stl, tm, ttl) ==
    [isDict |-> isd, jobNumber |-> num, jobName |-> name, stale |-> stl,
     time |-> tm, title |-> ttl]
JobItem(num, name, stl) == Item(TRUE, num, name, stl, "", "")
MeetingItem(tm, ttl) == Item(TRUE, <<>>, "", FALSE, tm, ttl)
Junk == Item(FALSE, <<>>, "", FALSE, "", "")

\* line 140 without the 998 suffix
ExcludedWithout998(job_number) ==
    /\ job_number # <<>>
    /\ \/ EndsWith(job_number, <<"0", "0", "0">>)
       \/ EndsWith(job_number, <<"9", "9", "9">>)

\* line 140: retainers and special jobs are skipped
Excluded(job_number) ==
    /\ job_number # <<>>
    /\ \/ EndsWith(job_number, <<"0", "0", "0">>)
       \/ EndsWith(job_number, <<"9", "9", "9">>)
       \/ EndsWith(job_number, <<"9", "9", "8">>)

\* lines 125-157.  A record whose Job Number is no string (isStr = FALSE) makes
\* .endswith raise, and so does a raising is_stale: the except of line 159
\* then returns [].
BuildJobs(records, updates, clock) ==
    LET F[i \in 0..Len(records)] ==
            IF i = 0 THEN [raised |-> FALSE, jobs |-> <<>>]
            ELSE LET r == records[i]
                     acc == F[i - 1]
                     stale == is_stale(r.jobNumber, updates, StaleDays, clock)
                 IN  IF acc.raised THEN acc
                     ELSE IF ~r.isStr THEN [raised |-> TRUE, jobs |-> <<>>]
                     ELSE IF Excluded(r.jobNumber) THEN acc
                     ELSE IF stale.raised THEN [raised |-> TRUE, jobs |-> <<>>]
                     ELSE [raised |-> FALSE,
                           jobs |-> Append(acc.jobs,
                                           JobItem(r.jobNumber, r.projectName, stale.value))]
    IN  F[Len(records)]

\* get_jobs_from_airtable() after the key check, given the update map and the
\* Projects answer: [failed, jobs]
get_jobs_from_airtable(updates, answer, clock) ==
    IF answer.outcome # "ok" THEN [failed |-> TRUE, jobs |-> <<>>]
    ELSE LET built == BuildJobs(answer.records, updates, clock)
         IN  IF built.raised THEN [failed |-> TRUE, jobs |-> <<>>]
             ELSE [failed |-> FALSE, jobs |-> built.jobs]

----------------------------------------------------------------------------
(* JSON values and the language-model call *)

\* A JSON value held under a key of the model's answer, or a local of todo()
Val(k, its, txt) == [kind |-> k, items |-> its, text |-> txt]
JNull == Val("null", <<>>, "")
JNumber == Val("number", <<>>, "")         \* a number other than 0
JString(txt) == Val("string", <<>>, txt)
JList(its) == Val("list", its, "")

\* Python truth value: "if not jobs", "if not fun_fact"
Truthy(v) ==
    CASE v.kind = "null" -> FALSE
      [] v.kind = "number" -> TRUE
      [] v.kind = "string" -> v.text # ""
      [] v.kind = "list" -> v.items # <<>>

\* What json.loads gives for the JSON text of an answer: "invalid" is text
\* that is no JSON, "null" any falsy value other than {}, "array" any truthy
\* value that is no object, "object" an object with the keys of fields.
Payload(k, f) == [kind |-> k, fields |-> f]
NoFields == [k \in {} |-> JNull]
NullPayload == Payload("null", NoFields)
InvalidPayload == Payload("invalid", NoFields)
ArrayPayload == Payload("array", NoFields)
EmptyObject == Payload("object", NoFields)

ObjectOf(ff, ms, wt, ww, op) ==
    Payload("object",
            [k \in {"funFact", "meetings", "workToday", "workThisWeek", "otherProjects"} |->
                CASE k = "funFact" -> ff
                  [] k = "meetings" -> ms
                  [] k = "workToday" -> wt
                  [] k = "workThisWeek" -> ww
                  [] k = "otherProjects" -> op])

\* call_claude's result: None, or the parsed value
NoneResponse == [none |-> TRUE, value |-> NullPayload]
Parsed(p) == [none |-> FALSE, value |-> p]

\* call_claude(meetings, jobs), given the model's reply r: the client raised
\* (kind "exception"), or it answered r.text, which holds the document r.doc
\* whose JSON value is r.json.  json.loads succeeds when what is left of the
\* text after strip_markdown_json is that document and the document is JSON;
\* every exception gives None.
call_claude(r) ==
    IF r.kind = "exception" THEN NoneResponse
    ELSE IF strip_markdown_json(r.text) = Strip(r.doc) /\ r.json.kind # "invalid"
    THEN Parsed(r.json)
    ELSE NoneResponse

\* "if claude_response:" (line 437)
ResponseTruthy(cr) ==
    /\ ~cr.none
    /\ \/ cr.value.kind = "array"
       \/ cr.value.kind = "object" /\ DOMAIN cr.value.fields # {}

\* line 449
FallbackProjects(js) ==
    [i \in 1..Len(js) |-> JobItem(js[i].jobNumber, js[i].jobName, FALSE)]

\* lines 437-449: [raised, fun_fact, processed_meetings, work_today,
\* work_this_week, other_projects]; .get on a value that is no object raises.
Unpacked(r, ff, pm, wt, ww, op) ==
    [raised |-> r, fun_fact |-> ff, processed_meetings |-> pm, work_today |-> wt,
     work_this_week |-> ww, other_projects |-> op]

unpack(cr, js) ==
    IF ResponseTruthy(cr)
    THEN IF cr.value.kind # "object"
         THEN Unpacked(TRUE, JString(""), JList(<<>>), JList(<<>>), JList(<<>>), JList(<<>>))
         ELSE Unpacked(FALSE,
                       Get(cr.value.fields, "funFact", JString("")),
                       Get(cr.value.fields, "meetings", JList(<<>>)),
                       Get(cr.value.fields, "workToday", JList(<<>>)),
                       Get(cr.value.fields, "workThisWeek", JList(<<>>)),
                       Get(cr.value.fields, "otherProjects", JList(<<>>)))
    ELSE Unpacked(FALSE, JString(""), JList(<<>>), JList(<<>>), JList(<<>>),
                  JList(FallbackProjects(js)))

----------------------------------------------------------------------------
(* The HTML renderer.  The document is a sequence of tokens: "chrome" for the *)
(* fixed frame, "fact" for the fun fact, "header" for a section's title bar,  *)
(* "row" for one meeting, job or project of a section.                        *)

Tok(tg, sc, txt, it) == [tag |-> tg, sec |-> sc, text |-> txt, item |-> it]
Chrome(name) == Tok("chrome", name, "", Junk)
Header(title) == Tok("header", title, "", Junk)
Row(title, it) == Tok("row", title, "", it)

Built(r, toks) == [raised |-> r, html |-> toks]

\* build_summary_html
build_summary_html(ff) ==
    IF ~Truthy(ff) THEN Built(FALSE, <<>>)
    ELSE Built(FALSE, <<Tok("fact", "FOTD", ff.text, Junk)>>)

\* The loop of a section over a truthy value: iterating a number raises
\* TypeError, .get on an element that is no object raises AttributeError.
RowsRaise(v) == v.kind # "list" \/ \E i \in 1..Len(v.items) : ~v.items[i].isDict

Rows(title, v) == [i \in 1..Len(v.items) |-> Row(title, v.items[i])]

\* build_section_html with the test of line 305 left out
SectionAlwaysWithHeader(title, v) ==
    IF v.kind = "list" /\ v.items = <<>> THEN Built(FALSE, <<Header(title)>>)
    ELSE IF ~Truthy(v) THEN Built(FALSE, <<>>)
    ELSE IF RowsRaise(v) THEN Built(TRUE, <<>>)
    ELSE Built(FALSE, <<Header(title)>> \o Rows(title, v))

\* build_meetings_html: nothing for a falsy value, else the header and a row
\* per meeting
build_meetings_html(v) ==
    IF ~Truthy(v) THEN Built(FALSE, <<>>)
    ELSE IF RowsRaise(v) THEN Built(TRUE, <<>>)
    ELSE Built(FALSE, <<Header("MEETINGS TODAY")>> \o Rows("MEETINGS TODAY", v))

\* build_section_html: nothing for a falsy value, else the header and
\* build_job_html of each job
build_section_html(title, v) ==
    IF ~Truthy(v) THEN Built(FALSE, <<>>)
    ELSE IF RowsRaise(v) THEN Built(TRUE, <<>>)
    ELSE Built(FALSE, <<Header(title)>> \o Rows(title, v))

\* build_other_projects_html: nothing for a falsy value, else the header and
\* a list item per project
build_other_projects_html(v) ==
    IF ~Truthy(v) THEN Built(FALSE, <<>>)
    ELSE IF RowsRaise(v) THEN Built(TRUE, <<>>)
    ELSE Built(FALSE, <<Header("OTHER PROJECTS")>> \o Rows("OTHER PROJECTS", v))

\* build_todo_email: the f-string evaluates the five builders in order, and an
\* exception of any of them leaves the function
build_todo_email(ff, ms, wt, ww, op) ==
    LET a == build_summary_html(ff)
        b == build_meetings_html(ms)
        c == build_section_html("WORK TODAY", wt)
        d == build_section_html("WORK THIS WEEK", ww)
        e == build_other_projects_html(op)
    IN  IF a.raised \/ b.raised \/ c.raised \/ d.raised \/ e.raised
        THEN Built(TRUE, <<>>)
        ELSE Built(FALSE, <<Chrome("head"), Chrome("date")>> \o a.html \o b.html
                          \o c.html \o d.html \o e.html \o <<Chrome("footer")>>)

\* len(x) of lines 457-460: TypeError for None and for a number.  (A string
\* has a length too; no string stands under a list key in this model.)
HasLen(v) == v.kind = "list"
LenOf(v) == Len(v.items)

DigestKeys == {"html", "funFact", "meetingsCount", "jobsTodayCount",
               "jobsThisWeekCount", "otherProjectsCount"}
ErrorKeys == {"error", "details"}

Http(code, ks, h, mc, tc, wc, oc) ==
    [status |-> code, keys |-> ks, html |-> h, meetingsCount |-> mc,
     jobsTodayCount |-> tc, jobsThisWeekCount |-> wc, otherProjectsCount |-> oc]
NoResponse == Http(0, {}, <<>>, 0, 0, 0, 0)

\* lines 463-467
ErrorResponse == Http(500, ErrorKeys, <<>>, 0, 0, 0, 0)

\* lines 454-461 with jobsThisWeekCount taken from work_today
JsonifyWeekFromToday(h, pm, wt, ww, op) ==
    IF ~(HasLen(pm) /\ HasLen(wt) /\ HasLen(ww) /\ HasLen(op))
    THEN [raised |-> TRUE, response |-> ErrorResponse]
    ELSE [raised |-> FALSE,
          response |-> Http(200, DigestKeys, h, LenOf(pm), LenOf(wt), LenOf(wt), LenOf(op))]

\* lines 454-461: [raised, response]
jsonify_digest(h, pm, wt, ww, op) ==
    IF ~(HasLen(pm) /\ HasLen(wt) /\ HasLen(ww) /\ HasLen(op))
    THEN [raised |-> TRUE, response |-> ErrorResponse]
    ELSE [raised |-> FALSE,
          response |-> Http(200, DigestKeys, h, LenOf(pm), LenOf(wt), LenOf(ww), LenOf(op))]

----------------------------------------------------------------------------
(* What the outside world can send *)

Clock(d, h) == [day |-> d, hour |-> h]

JobA == <<"A", "0", "0", "1">>
JobB == <<"B", "0", "0", "2">>

PRec(num, isstr, name) == [jobNumber |-> num, isStr |-> isstr, projectName |-> name]

\* Records of the Projects table.  The last one has a Job Number that is a
\* number, not a string.
ProjectRecords ==
    { PRec(JobA, TRUE, "Alpha"),
      PRec(JobB, TRUE, "Beta"),
      PRec(<<"A", "0", "0", "0">>, TRUE, "Retainer"),
      PRec(<<"B", "9", "9", "9">>, TRUE, "Internal"),
      PRec(<<"B", "9", "9", "8">>, TRUE, "Leave"),
      PRec(<<>>, TRUE, "Unnumbered"),
      PRec(<<"7">>, FALSE, "Numeric") }

URec(num, t) == [jobNumber |-> num, created |-> t]

\* Records of the Updates table
UpdateRecords ==
    { URec(JobA, IsoTime(Today - 1, 9)),
      URec(JobA, IsoTime(Today - StaleDays - 1, 9)),
      URec(JobA, EmptyTime),
      URec(JobA, MalformedTime),
      URec(JobB, IsoTime(Today - StaleDays, 9)),
      URec(<<>>, IsoTime(Today - 1, 9)) }

SeqsUpTo(S, n) == UNION {[1..k -> S] : k \in 0..n}

ProjectAnswers == FailedAnswers \cup {Answer("ok", recs) : recs \in SeqsUpTo(ProjectRecords, MaxRecords)}
UpdateAnswers == FailedAnswers \cup {Answer("ok", recs) : recs \in SeqsUpTo(UpdateRecords, MaxUpdates)}

Standup == MeetingItem("9am", "Standup")

\* request.get_json(): it raises ("invalid"), gives a truthy value that is no
\* object ("array"), a falsy value ("null"), or an object
Body(k, ms) == [kind |-> k, meetings |-> ms]
Bodies == { Body("invalid", <<>>), Body("array", <<>>), Body("null", <<>>),
            Body("object", <<>>), Body("object", <<Standup>>) }

\* A fenced code block around doc
Fenced(tagged, newline, doc) ==
    Fence \o (IF tagged THEN <<"j">> ELSE <<>>) \o (IF newline THEN <<NL>> ELSE <<>>)
          \o doc \o (IF newline THEN <<NL>> ELSE <<>>) \o Fence

Wrappings(doc) == {doc} \cup {Fenced(t, n, doc) : t \in BOOLEAN, n \in BOOLEAN}

Reply(k, txt, d, j) == [kind |-> k, text |-> txt, doc |-> d, json |-> j]
ClientRaised == Reply("exception", <<>>, <<>>, NullPayload)

\* The jobs of js that bucketing b puts in bucket name, in the order of js
Pick(js, b, name) ==
    LET F[i \in 0..Len(js)] ==
            IF i = 0 THEN <<>>
            ELSE IF b[i] = name THEN Append(F[i - 1], js[i]) ELSE F[i - 1]
    IN  F[Len(js)]

Ghost == JobItem(<<"G", "0", "0", "0">>, "Ghost", FALSE)

\* Objects that bucket the jobs: each job in one bucket, or in none
BucketObjects(ms, js) ==
    { ObjectOf(d.ff, d.ms, JList(Pick(js, b, "today")), JList(Pick(js, b, "week")),
               JList(Pick(js, b, "other"))) :
        b \in [1..Len(js) -> {"today", "week", "other", "drop"}],
        d \in { [ff |-> JString("fact"), ms |-> JList(ms)],
                [ff |-> JString(""), ms |-> JList(<<>>)] } }

\* Objects that do not follow the instructions
OddObjects(js) ==
    { Payload("object", [k \in {"funFact"} |-> JString("fact")]),
      ObjectOf(JString("fact"), JList(<<>>), JList(<<Ghost>>), JList(<<>>), JList(<<>>)),
      ObjectOf(JString("fact"), JList(<<>>), JList(js), JList(<<>>), JList(js)),
      ObjectOf(JString("fact"), JList(<<>>), JNull, JList(<<>>), JList(js)),
      ObjectOf(JString("fact"), JList(<<>>), JNumber, JList(<<>>), JList(js)),
      ObjectOf(JString("fact"), JNumber, JList(<<>>), JList(<<>>), JList(js)),
      ObjectOf(JString("fact"), JList(<<>>), JList(<<>>), JList(<<>>), JList(<<Junk>>)) }

OneLine == <<"x">>
TwoLines == <<"x", NL, "x">>

\* What the language model can answer to call_claude(ms, js)
ClaudeReplies(ms, js) ==
    {ClientRaised}
    \cup UNION { { Reply("text", t, d, j) :
                      t \in Wrappings(d),
                      j \in {NullPayload, InvalidPayload, ArrayPayload, EmptyObject} } :
                    d \in {OneLine, TwoLines} }
    \cup { Reply("text", Fenced(TRUE, TRUE, OneLine), OneLine, j) :
             j \in BucketObjects(ms, js) \cup OddObjects(js) }

----------------------------------------------------------------------------
(* POST /todo *)

IdleSm == [pc |-> "idle", text |-> <<>>, doc |-> <<>>, fenced |-> FALSE,
           tagged |-> FALSE, newline |-> FALSE, once |-> <<>>, twice |-> <<>>]
IdleSt == [pc |-> "idle", job_number |-> <<>>, updates |-> EmptyMap,
           result |-> [raised |-> FALSE, value |-> FALSE]]
IdleEm == [pc |-> "idle", fun_fact |-> JString(""), meetings |-> <<>>,
           work_today |-> <<>>, work_this_week |-> <<>>, other_projects |-> <<>>,
           html |-> <<>>]

\* The request before line 426, at position p
TodoAt(p) ==
    /\ pc = p
    /\ apiKey \in IF p = "idle" THEN {FALSE} ELSE BOOLEAN
    /\ meetings = <<>>
    /\ updatesResp = NotAsked
    /\ last_updates = EmptyMap
    /\ projectsResp = NotAsked
    /\ jobs = <<>>
    /\ fetchFailed = FALSE
    /\ reply = ClientRaised
    /\ claude_response = NoneResponse
    /\ fun_fact = JString("")
    /\ processed_meetings = JList(<<>>)
    /\ work_today = JList(<<>>)
    /\ work_this_week = JList(<<>>)
    /\ other_projects = JList(<<>>)
    /\ html = <<>>
    /\ response = NoResponse
    /\ raisedAt = "none"
    /\ trace = <<>>

Init ==
    /\ TodoAt("parse")
    /\ now = Clock(Today, 12)
    /\ sm = IdleSm
    /\ st = IdleSt
    /\ em = IdleEm

\* lines 463-467: the exception of a step becomes the 500 response
Raise(step) ==
    /\ pc' = "done"
    /\ response' = ErrorResponse
    /\ raisedAt' = step

\* lines 426-429
ParseBody ==
    /\ pc = "parse"
    /\ \E b \in Bodies :
         IF b.kind \in {"invalid", "array"}
         THEN /\ Raise("parse")
              /\ trace' = trace \o <<"parse", "respond">>
              /\ UNCHANGED meetings
         ELSE /\ meetings' = b.meetings
              /\ pc' = "get_jobs"
              /\ trace' = Append(trace, "parse")
              /\ UNCHANGED <<response, raisedAt>>
    /\ UNCHANGED <<apiKey, now, updatesResp, last_updates, projectsResp, jobs, fetchFailed,
                   reply, claude_response, fun_fact, processed_meetings, work_today,
                   work_this_week, other_projects, html, sm, st, em>>

\* lines 103-105: without a key nothing is fetched
NoApiKey ==
    /\ pc = "get_jobs"
    /\ ~apiKey
    /\ jobs' = <<>>
    /\ fetchFailed' = TRUE
    /\ pc' = "call_claude"
    /\ UNCHANGED <<apiKey, now, meetings, updatesResp, last_updates, projectsResp, reply,
                   claude_response, fun_fact, processed_meetings, work_today,
                   work_this_week, other_projects, html, response, raisedAt, trace,
                   sm, st, em>>

\* line 114: the Updates table is asked once, whatever it answers
FetchUpdates ==
    /\ pc = "get_jobs"
    /\ apiKey
    /\ \E a \in UpdateAnswers :
         /\ updatesResp' = a
         /\ last_updates' = get_last_update_dates(apiKey, a)
    /\ pc' = "projects"
    /\ trace' = Append(trace, "updates")
    /\ UNCHANGED <<apiKey, now, meetings, projectsResp, jobs, fetchFailed, reply,
                   claude_response, fun_fact, processed_meetings, work_today,
                   work_this_week, other_projects, html, response, raisedAt, sm, st, em>>

\* lines 116-161: the Projects table is asked once, whatever it answers
FetchProjects ==
    /\ pc = "projects"
    /\ \E a \in ProjectAnswers :
         LET got == get_jobs_from_airtable(last_updates, a, now)
         IN  /\ projectsResp' = a
             /\ jobs' = got.jobs
             /\ fetchFailed' = got.failed
    /\ pc' = "fetched"
    /\ trace' = Append(trace, "projects")
    /\ UNCHANGED <<apiKey, now, meetings, updatesResp, last_updates, reply,
                   claude_response, fun_fact, processed_meetings, work_today,
                   work_this_week, other_projects, html, response, raisedAt, sm, st, em>>

\* lines 157 and 161: get_jobs_from_airtable returns to line 432 and its
\* locals are gone
ReturnJobs ==
    /\ pc = "fetched"
    /\ updatesResp' = NotAsked
    /\ last_updates' = EmptyMap
    /\ projectsResp' = NotAsked
    /\ pc' = "call_claude"
    /\ UNCHANGED <<apiKey, now, meetings, jobs, fetchFailed, reply, claude_response,
                   fun_fact, processed_meetings, work_today, work_this_week,
                   other_projects, html, response, raisedAt, trace, sm, st, em>>

\* line 435
CallClaude ==
    /\ pc = "call_claude"
    /\ \E r \in ClaudeReplies(meetings, jobs) :
         /\ reply' = r
         /\ claude_response' = call_claude(r)
    /\ pc' = "unpack"
    /\ trace' = Append(trace, "claude")
    /\ UNCHANGED <<apiKey, now, meetings, updatesResp, last_updates, projectsResp, jobs,
                   fetchFailed, fun_fact, processed_meetings, work_today, work_this_week,
                   other_projects, html, response, raisedAt, sm, st, em>>

\* lines 437-449
Unpack ==
    /\ pc = "unpack"
    /\ LET u == unpack(claude_response, jobs)
       IN  IF u.raised
           THEN /\ Raise("unpack")
                /\ trace' = Append(trace, "respond")
                /\ UNCHANGED <<fun_fact, processed_meetings, work_today, work_this_week,
                               other_projects>>
           ELSE /\ fun_fact' = u.fun_fact
                /\ processed_meetings' = u.processed_meetings
                /\ work_today' = u.work_today
                /\ work_this_week' = u.work_this_week
                /\ other_projects' = u.other_projects
                /\ pc' = "render"
                /\ UNCHANGED <<response, raisedAt, trace>>
    /\ UNCHANGED <<apiKey, now, meetings, updatesResp, last_updates, projectsResp, jobs,
                   fetchFailed, reply, claude_response, html, sm, st, em>>

\* line 452
Render ==
    /\ pc = "render"
    /\ LET b == build_todo_email(fun_fact, processed_meetings, work_today,
                                 work_this_week, other_projects)
       IN  IF b.raised
           THEN /\ Raise("render")
                /\ trace' = trace \o <<"render", "respond">>
                /\ UNCHANGED html
           ELSE /\ html' = b.html
                /\ pc' = "respond"
                /\ trace' = Append(trace, "render")
                /\ UNCHANGED <<response, raisedAt>>
    /\ UNCHANGED <<apiKey, now, meetings, updatesResp, last_updates, projectsResp, jobs,
                   fetchFailed, reply, claude_response, fun_fact, processed_meetings,
                   work_today, work_this_week, other_projects, sm, st, em>>

\* lines 454-461
Respond ==
    /\ pc = "respond"
    /\ LET j == jsonify_digest(html, processed_meetings, work_today, work_this_week,
                               other_projects)
       IN  /\ response' = j.response
           /\ raisedAt' = IF j.raised THEN "respond" ELSE "none"
    /\ pc' = "done"
    /\ trace' = Append(trace, "respond")
    /\ UNCHANGED <<apiKey, now, meetings, updatesResp, last_updates, projectsResp, jobs,
                   fetchFailed, reply, claude_response, fun_fact, processed_meetings,
                   work_today, work_this_week, other_projects, html, sm, st, em>>

Next ==
    \/ ParseBody
    \/ NoApiKey
    \/ FetchUpdates
    \/ FetchProjects
    \/ ReturnJobs
    \/ CallClaude
    \/ Unpack
    \/ Render
    \/ Respond

Spec == Init /\ [][Next]_vars

----------------------------------------------------------------------------
(* strip_markdown_json on its own *)

\* The texts without a backquote, of at most n characters
Texts(n) == SeqsUpTo({"x", SP, NL}, n)

StripInput(d, f, t, n, padded) ==
    LET inner == IF f THEN Fenced(t, n, d) ELSE d
    IN  [pc |-> "input",
         text |-> IF padded THEN <<NL>> \o inner \o <<SP>> ELSE inner,
         doc |-> d, fenced |-> f, tagged |-> t, newline |-> n,
         once |-> <<>>, twice |-> <<>>]

InitStrip ==
    /\ TodoAt("idle")
    /\ now = Clock(Today, 12)
    /\ st = IdleSt
    /\ em = IdleEm
    /\ sm \in { StripInput(d, f, t, n, padded) :
                  d \in Texts(MaxText), f \in BOOLEAN, t \in BOOLEAN, n \in BOOLEAN,
                  padded \in BOOLEAN }

StripOnce ==
    /\ sm.pc = "input"
    /\ sm' = [sm EXCEPT !.pc = "once", !.once = strip_markdown_json(sm.text)]
    /\ UNCHANGED <<todoVars, now, st, em>>

StripTwice ==
    /\ sm.pc = "once"
    /\ sm' = [sm EXCEPT !.pc = "twice", !.twice = strip_markdown_json(sm.once)]
    /\ UNCHANGED <<todoVars, now, st, em>>

NextStrip ==
    \/ StripOnce
    \/ StripTwice

SpecStrip == InitStrip /\ [][NextStrip]_vars

----------------------------------------------------------------------------
(* is_stale on its own *)

Times ==
    {EmptyTime, MalformedTime}
    \cup {IsoTime(d, h) : d \in (Today - MaxAge)..(Today + 1), h \in {0, 23}}

UpdateMaps == UNION {[D -> Times] : D \in SUBSET {JobA, JobB}}

InitStale ==
    /\ TodoAt("idle")
    /\ now \in {Clock(Today, h) : h \in {0, 12, 23}}
    /\ sm = IdleSm
    /\ em = IdleEm
    /\ st \in { [pc |-> "call", job_number |-> j, updates |-> m,
                 result |-> [raised |-> FALSE, value |-> FALSE]] :
                  j \in {JobA, JobB}, m \in UpdateMaps }

EvalIsStale ==
    /\ st.pc = "call"
    /\ st' = [st EXCEPT !.pc = "done",
                        !.result = is_stale(st.job_number, st.updates, StaleDays, now)]
    /\ UNCHANGED <<todoVars, now, sm, em>>

NextStale == EvalIsStale

SpecStale == InitStale /\ [][NextStale]_vars

----------------------------------------------------------------------------
(* build_todo_email on its own *)

MeetingItems == {Standup, MeetingItem("2pm", "Review")}
JobItems == {JobItem(JobA, "Alpha", TRUE), JobItem(JobB, "Beta", FALSE)}

InitRender ==
    /\ TodoAt("idle")
    /\ now = Clock(Today, 12)
    /\ sm = IdleSm
    /\ st = IdleSt
    /\ em \in { [pc |-> "call", fun_fact |-> ff, meetings |-> ms, work_today |-> wt,
                 work_this_week |-> ww, other_projects |-> op, html |-> <<>>] :
                  ff \in {JString(""), JString("fact")},
                  ms \in SeqsUpTo(MeetingItems, MaxItems),
                  wt \in SeqsUpTo(JobItems, MaxItems),
                  ww \in SeqsUpTo(JobItems, MaxItems),
                  op \in SeqsUpTo(JobItems, MaxItems) }

BuildEmail ==
    /\ em.pc = "call"
    /\ em' = [em EXCEPT !.pc = "done",
                        !.html = build_todo_email(em.fun_fact, JList(em.meetings),
                                                  JList(em.work_today),
                                                  JList(em.work_this_week),
                                                  JList(em.other_projects)).html]
    /\ UNCHANGED <<todoVars, now, sm, st>>

NextRender == BuildEmail

SpecRender == InitRender /\ [][NextRender]_vars

----------------------------------------------------------------------------
(* Properties *)

Done == pc = "done"

\* The tokens of one section of a document, in order
Section(doc, title) ==
    LET InSection(t) == t.sec = title /\ t.tag \in {"header", "row"}
    IN  SelectSeq(doc, InSection)

RowCount(doc, title) ==
    LET IsRow(t) == t.sec = title /\ t.tag = "row"
    IN  Len(SelectSeq(doc, IsRow))

\* How often the job of number num and name name stands in a list of items
Occurrences(its, num, name) ==
    Cardinality({i \in 1..Len(its) : its[i].jobNumber = num /\ its[i].jobName = name})

ItemsOf(v) == IF v.kind = "list" THEN v.items ELSE <<>>

Rank(step) ==
    CASE step = "parse" -> 1
      [] step = "updates" -> 2
      [] step = "projects" -> 3
      [] step = "claude" -> 4
      [] step = "render" -> 5
      [] step = "respond" -> 6

Took(step) == \E i \in 1..Len(trace) : trace[i] = step

\* C1: when the job fetch fails, the request still ends in HTTP 200 and every
\* job count of the response is 0, whatever the language model answered.
C1_FailedFetchGivesEmptyBuckets ==
    (Done /\ fetchFailed) =>
        /\ response.status = 200
        /\ response.jobsTodayCount = 0
        /\ response.jobsThisWeekCount = 0
        /\ response.otherProjectsCount = 0

\* The language-model call failed: the client raised, the text left after
\* fence stripping is no JSON, or the object lacks one of its five fields
ClaudeFailed ==
    \/ reply.kind = "exception"
    \/ reply.json.kind = "invalid"
    \/ strip_markdown_json(reply.text) # Strip(reply.doc)
    \/ /\ reply.json.kind = "object"
       /\ DOMAIN reply.json.fields #
              {"funFact", "meetings", "workToday", "workThisWeek", "otherProjects"}

\* C2: every failure of the language-model call gives None and the fallback
\* response (HTTP 200, no fun fact, no meetings, no work, one other project
\* per fetched job in fetch order), and no answer of the language model ends
\* the request in HTTP 500.
C2_ClaudeFailureTakesFallback ==
    (Done /\ Took("claude")) =>
        /\ ClaudeFailed =>
             /\ claude_response.none
             /\ response.status = 200
             /\ fun_fact = JString("")
             /\ response.meetingsCount = 0
             /\ response.jobsTodayCount = 0
             /\ response.jobsThisWeekCount = 0
             /\ other_projects = JList(FallbackProjects(jobs))
        /\ response.status # 500

\* C3: in a request answered with HTTP 200, every job the fetch returned
\* stands in exactly one of work-today, work-this-week and other-projects.
C3_BucketsPartitionJobs ==
    (Done /\ response.status = 200) =>
        \A i \in 1..Len(jobs) :
            Occurrences(ItemsOf(work_today) \o ItemsOf(work_this_week)
                            \o ItemsOf(other_projects),
                        jobs[i].jobNumber, jobs[i].jobName)
                = Occurrences(jobs, jobs[i].jobNumber, jobs[i].jobName)

\* C4: with the default threshold is_stale never raises; it is true without an
\* entry or with an empty one, true when the entry's date is 10 or more days
\* before now, false when it is fewer than 10 days before now, and false for an
\* entry that is no date.
C4_IsStale ==
    st.pc = "done" =>
        LET e == IF st.job_number \in DOMAIN st.updates
                 THEN st.updates[st.job_number] ELSE EmptyTime
        IN  /\ ~st.result.raised
            /\ e.kind = "empty" => st.result.value
            /\ (e.kind = "iso" /\ now.day - e.day >= 10) => st.result.value
            /\ (e.kind = "iso" /\ now.day - e.day < 10) => ~st.result.value
            /\ e.kind = "malformed" => ~st.result.value

C4_Witness ==
    /\ st.pc = "done"
    /\ st.job_number \in DOMAIN st.updates
    /\ st.updates[st.job_number] = IsoTime(Today - 10, 23)
    /\ now.hour = 0
    /\ st.result.value

\* C5: a request ends either in HTTP 200 with html and the four counts, each
\* count the length of the list the renderer was given and the number of rows
\* of that section of html, or in HTTP 500 with error and details, and in HTTP
\* 500 only when a step of the handler raised.
C5_ResponseShape ==
    /\ ~Done => response = NoResponse
    /\ Done =>
        \/ /\ response.status = 200
           /\ raisedAt = "none"
           /\ {"html", "meetingsCount", "jobsTodayCount", "jobsThisWeekCount",
               "otherProjectsCount"} \subseteq response.keys
           /\ response.html = html
           /\ response.meetingsCount = Len(ItemsOf(processed_meetings))
           /\ response.meetingsCount = RowCount(html, "MEETINGS TODAY")
           /\ response.jobsTodayCount = Len(ItemsOf(work_today))
           /\ response.jobsTodayCount = RowCount(html, "WORK TODAY")
           /\ response.jobsThisWeekCount = Len(ItemsOf(work_this_week))
           /\ response.jobsThisWeekCount = RowCount(html, "WORK THIS WEEK")
           /\ response.otherProjectsCount = Len(ItemsOf(other_projects))
           /\ response.otherProjectsCount = RowCount(html, "OTHER PROJECTS")
        \/ /\ response.status = 500
           /\ response.keys = {"error", "details"}
           /\ raisedAt # "none"

C5_Witness ==
    /\ Done
    /\ response.status = 200
    /\ response.meetingsCount = 1
    /\ response.jobsTodayCount = 1
    /\ response.jobsThisWeekCount = 0
    /\ response.otherProjectsCount = 1

\* C6: the steps of a request come in the order parse, updates fetch,
\* projects fetch, language-model call, render, respond, each at most once,
\* and after a failed fetch the language-model call and the render step still
\* happen.
C6_OrderedOnceAndNotCutShort ==
    /\ \A i \in 1..Len(trace) : \A k \in 1..Len(trace) :
           i < k => Rank(trace[i]) < Rank(trace[k])
    /\ (Done /\ fetchFailed) => (Took("claude") /\ Took("render"))

\* What a section of a document is to be, given its list
SectionMatches(doc, title, its) ==
    IF its = <<>> THEN Section(doc, title) = <<>>
    ELSE Section(doc, title) = <<Header(title)>> \o [i \in 1..Len(its) |-> Row(title, its[i])]

\* C7: in the document of build_todo_email each of the four sections is absent
\* (no header, no row) when its list is empty, and is its header followed by
\* one row per element, in list order, when it is not.
C7_SectionsFollowLists ==
    em.pc = "done" =>
        /\ SectionMatches(em.html, "MEETINGS TODAY", em.meetings)
        /\ SectionMatches(em.html, "WORK TODAY", em.work_today)
        /\ SectionMatches(em.html, "WORK THIS WEEK", em.work_this_week)
        /\ SectionMatches(em.html, "OTHER PROJECTS", em.other_projects)

C7_Witness ==
    /\ em.pc = "done"
    /\ em.work_today = <<>>
    /\ Len(em.work_this_week) = 2
    /\ em.work_this_week[1] # em.work_this_week[2]
    /\ Len(em.meetings) = 1
    /\ Section(em.html, "WORK TODAY") = <<>>
    /\ Len(Section(em.html, "WORK THIS WEEK")) = 3

\* C8 as stated: for a text J without backquotes, strip_markdown_json of J in a
\* fence (with or without a language tag, with or without a newline after the
\* opening fence) and of J alone is J trimmed, and a second application
\* changes nothing.
C8_EveryFenceStripped ==
    sm.pc = "twice" => (sm.once = Strip(sm.doc) /\ sm.twice = sm.once)

\* C8 as amended: strip_markdown_json of J alone is J trimmed; of J in a fence
\* it is J trimmed when a newline follows the opening fence and its language
\* tag, or when there is no tag and J has no newline; a second application
\* changes nothing in every case.
C8_FenceLineStripped ==
    sm.pc = "twice" =>
        /\ (~sm.fenced \/ sm.newline \/ (~sm.tagged /\ ~Contains(sm.doc, NL)))
               => sm.once = Strip(sm.doc)
        /\ sm.twice = sm.once

C8_Witness ==
    /\ sm.pc = "twice"
    /\ sm.fenced /\ sm.tagged /\ sm.newline
    /\ sm.doc = <<"x", NL, "x">>
    /\ sm.once = sm.doc

\* The job numbers line 140 is after: the last three characters are 000, 999
\* or 998
EndsInSpecialSuffix(num) ==
    /\ Len(num) >= 3
    /\ <<num[Len(num) - 2], num[Len(num) - 1], num[Len(num)]>>
           \in {<<"0", "0", "0">>, <<"9", "9", "9">>, <<"9", "9", "8">>}

KeptRecords(recs) ==
    LET Keep(r) == ~EndsInSpecialSuffix(r.jobNumber)
    IN  SelectSeq(recs, Keep)

\* C9: after a successful projects fetch the jobs are the fetched records
\* whose job number does not end in 000, 999 or 998, one job per record in the
\* order of the answer; no job with such a number is among the jobs handed to
\* the language model or in the fallback other-projects list.
C9_SpecialJobsDropped ==
    /\ (pc = "fetched" /\ ~fetchFailed) =>
         LET kept == KeptRecords(projectsResp.records)
         IN  /\ Len(jobs) = Len(kept)
             /\ \A i \in 1..Len(kept) :
                    /\ jobs[i].jobNumber = kept[i].jobNumber
                    /\ jobs[i].jobName = kept[i].projectName
    /\ \A i \in 1..Len(jobs) : ~EndsInSpecialSuffix(jobs[i].jobNumber)
    /\ (pc \in {"render", "respond", "done"} /\ raisedAt = "none"
          /\ ~ResponseTruthy(claude_response)) =>
         \A i \in 1..Len(ItemsOf(other_projects)) :
             ~EndsInSpecialSuffix(other_projects.items[i].jobNumber)

C9_Witness ==
    /\ pc = "fetched"
    /\ ~fetchFailed
    /\ Len(projectsResp.records) = 2
    /\ projectsResp.records[1].jobNumber = <<"B", "9", "9", "8">>
    /\ projectsResp.records[2].jobNumber = JobA
    /\ Len(jobs) = 1

\* What the staleness of a job is to be, given the created time of its update
StaleFor(t) == t.kind = "empty" \/ (t.kind = "iso" /\ now.day - t.day >= 10)

FirstUpdateOf(recs, num) ==
    LET At == {i \in 1..Len(recs) : recs[i].jobNumber = num}
    IN  IF num = <<>> \/ At = {} THEN EmptyTime
        ELSE recs[CHOOSE i \in At : \A k \in At : i <= k].created

\* C10: a failed updates fetch does not fail the job fetch: with a good
\* projects answer every job that is not excluded is returned, and flagged
\* stale; after a good updates answer a job's flag is the staleness of the
\* first update record, in answer order, that carries its job number (stale
\* when there is none).
C10_StaleFromFirstUpdate ==
    (pc = "fetched" /\ ~fetchFailed) =>
        /\ Len(jobs) = Len(KeptRecords(projectsResp.records))
        /\ updatesResp.outcome # "ok" => \A i \in 1..Len(jobs) : jobs[i].stale
        /\ updatesResp.outcome = "ok" =>
             \A i \in 1..Len(jobs) :
                 jobs[i].stale
                     = StaleFor(FirstUpdateOf(updatesResp.records, jobs[i].jobNumber))

C10_Witness ==
    /\ pc = "fetched"
    /\ ~fetchFailed
    /\ updatesResp.outcome = "ok"
    /\ Len(updatesResp.records) = 2
    /\ updatesResp.records[1] = URec(JobA, IsoTime(Today - 1, 9))
    /\ updatesResp.records[2] = URec(JobA, IsoTime(Today - StaleDays - 1, 9))
    /\ Len(jobs) = 1
    /\ jobs[1].jobNumber = JobA
    /\ ~jobs[1].stale

====
